---- MODULE Spec2Model ----
(***************************************************************************)
(* pyblish-lite Controller (src/pyblish_lite/control.py): the pair         *)
(* generator, the deferred callback chain of iterate_and_process and the   *)
(* commands reset/collect/validate/publish/stop, as a state machine.       *)
(*                                                                         *)
(* One action is one command of the host or one deferred callback; Qt's    *)
(* event loop runs them one at a time.  The signals of a step are in `signals`.*)
(***************************************************************************)
EXTENDS Integers, Sequences, FiniteSets, TLC

VARIABLES
    registry,   \* what pyblish.api.discover() returns (plug-in names, by order)
    test,       \* what pyblish.logic.registered_test() returns
    pep479,     \* the interpreter turns StopIteration raised in a generator into RuntimeError
    inited,     \* reset() has run: the attributes of reset_variables exist
    ctl,        \* the Controller's attributes, self.processing and the generator included
    groups,     \* util.OrderGroups, the singleton's order keys
    context,    \* self.context: the instances, in insertion order
    publish,    \* instance.data["publish"] of every instance
    pending,    \* util.defer: the single-shot timers not fired yet, by expiry
    signals,    \* the signals the last step emitted, in order
    runs,       \* the iterate_and_process calls so far, and what each did (history)
    hist,       \* what has happened since the last reset() (history)
    cycle,      \* the number of reset() calls so far (history)
    ncmd        \* the number of reset/validate/publish/act calls so far

vars == <<registry, test, pep479, inited, ctl, groups, context, publish,
          pending, signals, runs, hist, cycle, ncmd>>

\* What a step that emits nothing leaves alone.
env == <<registry, test, pep479>>

----------------------------------------------------------------------------
(* Bounds *)

MaxCmds == 2

----------------------------------------------------------------------------
(* Values *)

None == "None"

\* None where the code holds an order (orders are never negative).
NoOrder == -1

\* The plug-ins the registry may hold.  order: 0 collect, 1 validate,
\* 2 extract; adds: the instances process() creates in the context;
\* raises: process() may raise instead of returning a result.
Catalog ==
    [ CollectA   |-> [order |-> 0, active |-> TRUE,  instanceEnabled |-> FALSE,
                      families |-> {"*"}, adds |-> <<"X", "Y">>, raises |-> FALSE],
      CollectB   |-> [order |-> 0, active |-> TRUE,  instanceEnabled |-> FALSE,
                      families |-> {"*"}, adds |-> <<"X", "W", "Y", "Z">>, raises |-> FALSE],
      CollectM   |-> [order |-> 0, active |-> TRUE,  instanceEnabled |-> FALSE,
                      families |-> {"camera"}, adds |-> <<>>, raises |-> FALSE],
      CollectOff |-> [order |-> 0, active |-> FALSE, instanceEnabled |-> TRUE,
                      families |-> {"*"}, adds |-> <<>>, raises |-> FALSE],
      CollectI   |-> [order |-> 0, active |-> TRUE,  instanceEnabled |-> TRUE,
                      families |-> {"model"}, adds |-> <<>>, raises |-> TRUE],
      ValidateA  |-> [order |-> 1, active |-> TRUE,  instanceEnabled |-> TRUE,
                      families |-> {"*"}, adds |-> <<>>, raises |-> FALSE],
      ExtractA   |-> [order |-> 2, active |-> TRUE,  instanceEnabled |-> TRUE,
                      families |-> {"*"}, adds |-> <<>>, raises |-> FALSE],
      ExtractC   |-> [order |-> 2, active |-> TRUE,  instanceEnabled |-> FALSE,
                      families |-> {"*"}, adds |-> <<>>, raises |-> FALSE],
      ExtractD   |-> [order |-> 2, active |-> TRUE,  instanceEnabled |-> FALSE,
                      families |-> {"*"}, adds |-> <<>>, raises |-> FALSE],
      ExtractOff |-> [order |-> 2, active |-> FALSE, instanceEnabled |-> FALSE,
                      families |-> {"*"}, adds |-> <<>>, raises |-> FALSE] ]

\* The instances the collectors create: X(publish=true), Y(publish=false),
\* Z(publish=true), and W of another family.  sound: process() on the
\* instance always returns a result without an error; optional: the host
\* lets the user toggle it.
Instances ==
    [ X |-> [publish |-> TRUE,  family |-> "model", sound |-> FALSE, optional |-> TRUE],
      Y |-> [publish |-> FALSE, family |-> "model", sound |-> FALSE, optional |-> FALSE],
      Z |-> [publish |-> TRUE,  family |-> "model", sound |-> TRUE,  optional |-> TRUE],
      W |-> [publish |-> TRUE,  family |-> "rig",   sound |-> TRUE,  optional |-> FALSE] ]

InstanceNames == DOMAIN Instances

\* The registries: each sorted by order, as discover() returns them.
ScenarioRegistry == <<"CollectA", "ValidateA", "ExtractA">>
CollectRegistry  == <<"CollectB", "CollectM", "CollectOff", "CollectI", "ValidateA">>
LateRegistry     == <<"ExtractC", "ExtractD">>
TailRegistry     == <<"CollectA", "ExtractOff">>

Registries == {ScenarioRegistry, CollectRegistry, LateRegistry, TailRegistry}

\* The stop predicates a host may register.
Tests == {"never", "onError", "always"}

----------------------------------------------------------------------------
(* Collaborators: pyblish.logic, util *)

RECURSIVE SortedSeq(_)
SortedSeq(S) ==
    IF S = {} THEN <<>>
    ELSE LET m == CHOOSE x \in S : \A y \in S : x <= y
         IN <<m>> \o SortedSeq(S \ {m})

Range(seq) == {seq[k] : k \in 1..Len(seq)}

\* util.OrderGroups.reset() and .groups(): the distinct orders of the
\* active plug-ins the registry holds, ascending.
OrderGroupsReset(reg) ==
    SortedSeq({Catalog[reg[k]].order : k \in {j \in 1..Len(reg) : Catalog[reg[j]].active}})

\* util.OrderGroups.validation_order(): orders above it are past validation.
ValidationOrder == 1

\* self.test(**self.processing): the message, "" for none.
TestMessage(proc) ==
    CASE test = "never"   -> ""
      [] test = "always"  -> "halt"
      [] test = "onError" -> IF proc.ordersWithError # {} THEN "halt" ELSE ""

Compatible(fams, families) == "*" \in fams \/ fams \cap families # {}

\* Fault model: the families of the plug-in are ignored.
InstancesByPluginAll(p) == context

\* pyblish.logic.instances_by_plugin(self.context, plugin): a list, built
\* when the generator reaches the plug-in.
InstancesByPlugin(p) ==
    SelectSeq(context, LAMBDA i : Compatible(Catalog[p].families, {Instances[i].family}))

\* util.collect_families_from_instances(self.context, only_active=True)
CollectFamilies ==
    {Instances[context[k]].family : k \in {j \in 1..Len(context) : publish[context[j]] # FALSE}}

\* Fault model: every plug-in is compatible with every set of families.
PluginsByFamiliesAll(p, families) == TRUE

\* pyblish.logic.plugins_by_families([plugin], families) is not empty
PluginsByFamilies(p, families) == Compatible(Catalog[p].families, families)

----------------------------------------------------------------------------
(* current_pair, events, timers *)

NonePair  == [kind |-> "none",  plugin |-> None, instance |-> None, pos |-> 0,
              pub |-> TRUE, act |-> TRUE, msg |-> "", first |-> FALSE]
EmptyPair == [NonePair EXCEPT !.kind = "empty"]

\* (plugin, instance) as the generator yields it.  pos, pub, act, msg and
\* first are history: the position in self.plugins, the publish flag, the
\* active flag and the stop predicate's answer when the pair was produced,
\* and whether it is the first pair since the plug-in was reached.
Pair(c, pos, i, first) ==
    [kind |-> "pair", plugin |-> c.plugins[pos], instance |-> i, pos |-> pos,
     pub |-> IF i = None THEN TRUE ELSE publish[i],
     act |-> Catalog[c.plugins[pos]].active,
     msg |-> TestMessage([c.processing EXCEPT !.nextOrder = Catalog[c.plugins[pos]].order]),
     first |-> first]

\* A signal, or (type "Collected", "Validated", "Stopped", "test_abort",
\* "fault") the reason the generator or _process raised.
Ev(type, run, pair, err) ==
    [type |-> type, run |-> run, cycle |-> cycle, plugin |-> pair.plugin,
     instance |-> pair.instance, pos |-> pair.pos, pub |-> pair.pub,
     act |-> pair.act, msg |-> pair.msg, first |-> pair.first, error |-> err]

Types(evs) == {evs[k].type : k \in 1..Len(evs)}

Count(evs, type) == Cardinality({k \in 1..Len(evs) : evs[k].type = type})

\* util.defer(d, callback) for the callback cb of run `run`; fin: the
\* on_finished of that run is self.on_finished (publish), not the default.
Timer(cb, run, fin, d) == [cb |-> cb, run |-> run, fin |-> fin, d |-> d]

\* Timers fire by expiry time.  A timer set now with delay d expires after
\* every pending timer whose delay is at most d; it may expire before or
\* after one with a longer delay, since callbacks take arbitrary time.
InsertPositions(q, d) ==
    {k \in 1..(Len(q) + 1) : \A j \in k..Len(q) : q[j].d > d}

InsertAt(q, k, t) == SubSeq(q, 1, k - 1) \o <<t>> \o SubSeq(q, k, Len(q))

----------------------------------------------------------------------------
(* Controller._pair_yielder: one next() on the generator *)

FreshGen == [status |-> "fresh", pi |-> 0, insts |-> <<>>, ii |-> 0]
DeadGen  == [status |-> "dead",  pi |-> 0, insts |-> <<>>, ii |-> 0]

\* The key after `order` in order_groups.groups().keys(), if any.
FollowingGroup(order) ==
    LET at == {k \in 1..Len(groups) : groups[k] = order}
    IN IF at = {} THEN NoOrder
       ELSE LET k == CHOOSE k \in at : TRUE
            IN IF k < Len(groups) THEN groups[k + 1] ELSE NoOrder

\* Fault model: a plug-in of the cursor's own group counts as past it.
PassedGroupEarly(proc, p) ==
    proc.current_order # NoOrder /\ Catalog[p].order >= proc.current_order

\* The plug-in is past the stage cursor.
PassedGroup(proc, p) ==
    proc.current_order # NoOrder /\ Catalog[p].order > proc.current_order

\* Fault model: the cursor stays where it is.
AdvanceCursorStays(proc) == proc

\* The cursor moves to the next order group.
AdvanceCursor(proc) ==
    LET new_current_order == proc.next_order
        new_next_order == IF new_current_order # NoOrder
                          THEN FollowingGroup(new_current_order) ELSE NoOrder
    IN [proc EXCEPT !.current_order = new_current_order,
                    !.next_order = new_next_order]

\* `not self.collected and plugin.order > self.collectors_order`
PassedCollect(c, p) == ~c.collected /\ Catalog[p].order > c.collectors_order

\* `not self.validated and plugin.order > self.validators_order`
PassedValidate(c, p) == ~c.validated /\ Catalog[p].order > c.validators_order

\* Fault model: the generator never looks at self.stopped.
StopRequestedNever(c) == FALSE

\* Fault model: the generator stops when is_running is false, too.
StopRequestedOrIdle(c) == c.stopped \/ ~c.is_running

\* `if self.stopped: raise StopIteration("Stopped")`
StopRequested(c) == c.stopped

\* Fault model: the predicate's message is ignored.
TestStopsNever(proc) == FALSE

\* `message = self.test(**self.processing); if message: raise`
TestStops(proc) == TestMessage(proc) # ""

\* Fault model: the active flag is ignored.
PluginInactiveNever(p) == FALSE

\* `if not plugin.active: continue`
PluginInactive(p) == ~Catalog[p].active

\* Fault model: the publish flag is ignored.
PublishIsFalseNever(i) == FALSE

\* `if instance.data.get("publish") is False: continue`
PublishIsFalse(i) == publish[i] = FALSE

\* Fault model: the loop visits plugins from its end.
LoopPositionReversed(plugins, k) == Len(plugins) + 1 - k

\* `for plugin in plugins`: the position in plugins the loop visits in its
\* turn k, and the turn after turn k.
LoopPosition(plugins, k) == k

NextPlugin(k) == k + 1

\* A raise inside the generator ends it.
Raise(s, why) ==
    [s EXCEPT !.c.pair_generator = DeadGen, !.out = "raise",
              !.ev = Append(@, Ev(why, s.run, NonePair, FALSE))]

Yield(s, pi, insts, ii, i, first) ==
    [s EXCEPT !.c.pair_generator = [status |-> "suspended", pi |-> pi,
                                    insts |-> insts, ii |-> ii],
              !.out = "yield",
              !.pair = Pair(s.c, LoopPosition(s.c.plugins, pi), i, first)]

RECURSIVE Visit(_, _), IterInstances(_, _, _, _, _)

\* The body of `for plugin in plugins` from its top, in the loop's turn pi.
Visit(s, pi) ==
    IF pi > Len(s.c.plugins)
    THEN [s EXCEPT !.c.pair_generator = DeadGen, !.out = "exhausted"]
    ELSE
    LET p  == s.c.plugins[LoopPosition(s.c.plugins, pi)]
        s1 == IF PassedGroup(s.c.processing, p)
              THEN [s EXCEPT !.c.processing = AdvanceCursor(@),
                             !.ev = Append(@, Ev("passed_group", s.run, NonePair, FALSE))]
              ELSE s
    IN
    IF PassedCollect(s1.c, p)
    THEN Raise([s1 EXCEPT !.c.collected = TRUE], "Collected")
    ELSE
    LET pv == PassedValidate(s1.c, p)
        s2 == IF pv THEN [s1 EXCEPT !.c.validated = TRUE] ELSE s1
    IN
    IF pv /\ s2.c.processing.stop_on_validation THEN Raise(s2, "Validated")
    ELSE IF StopRequested(s2.c) THEN Raise(s2, "Stopped")
    ELSE
    LET s3 == [s2 EXCEPT !.c.processing.nextOrder = Catalog[p].order]
    IN
    IF TestStops(s3.c.processing) THEN Raise(s3, "test_abort")
    ELSE
    LET s4 == [s3 EXCEPT !.c.processing.last_plugin_order = Catalog[p].order]
    IN
    IF PluginInactive(p) THEN Visit(s4, NextPlugin(pi))
    ELSE IF Catalog[p].instanceEnabled
    THEN IterInstances(s4, pi, InstancesByPlugin(p), 1, TRUE)
    ELSE IF ~PluginsByFamilies(p, CollectFamilies) THEN Visit(s4, NextPlugin(pi))
    ELSE Yield(s4, pi, <<>>, 0, None, TRUE)

\* `for instance in instances` from its element ii.
IterInstances(s, pi, insts, ii, first) ==
    IF ii > Len(insts) THEN Visit(s, NextPlugin(pi))
    ELSE IF PublishIsFalse(insts[ii]) THEN IterInstances(s, pi, insts, ii + 1, first)
    ELSE Yield(s, pi, insts, ii, insts[ii], first)

\* next(self.pair_generator) called by run r: the Controller afterwards,
\* the signals emitted on the way, and how it came back.
GenNext(c, r) ==
    LET g == c.pair_generator
        s == [c |-> c, ev |-> <<>>, out |-> "exhausted", pair |-> NonePair, run |-> r]
    IN CASE g.status = "dead"      -> s
         [] g.status = "fresh"     -> Visit(s, 1)
         [] g.status = "suspended" -> IterInstances(s, g.pi, g.insts, g.ii + 1, FALSE)

----------------------------------------------------------------------------
(* History *)

Of(evs, type) == SelectSeq(evs, LAMBDA e : e.type = type)

PairsOf(evs) == {<<evs[k].plugin, evs[k].instance>> : k \in 1..Len(evs)}

\* The generator and the flags and cursor it keeps.
Sequencer(c) ==
    <<c.pair_generator, c.collected, c.validated,
      c.processing.current_order, c.processing.next_order>>

\* The run a command starts.  quiet: no callback of an earlier run is
\* pending; seen: the pairs processed in this reset cycle so far; kept: the
\* command left the sequencer as it was; then what the run's callbacks do
\* while the reset cycle it was started in lasts: the pairs announced, the
\* pairs processed and the was_finished and was_stopped emitted, whether the
\* stop predicate gave a reason, at all and before any pair, whether the
\* generator ended on self.stopped, and whether an exception reached the
\* except clauses of on_next or on_process.
NewRun(cmd, cyc, seen, kept) ==
    [cmd |-> cmd, cycle |-> cyc, quiet |-> pending = <<>>, seen |-> seen,
     kept |-> kept, announced |-> 0, results |-> <<>>, finished |-> 0,
     stopSignals |-> 0, aborted |-> FALSE, abortedFirst |-> FALSE,
     halted |-> FALSE, faulted |-> FALSE]

RunDid(run, evs) ==
    IF run.cycle # cycle THEN run
    ELSE [run EXCEPT
            !.announced = @ + Count(evs, "about_to_process"),
            !.results   = @ \o [k \in 1..Len(Of(evs, "was_processed")) |->
                                   <<Of(evs, "was_processed")[k].plugin,
                                     Of(evs, "was_processed")[k].instance>>],
            !.finished  = @ + Count(evs, "was_finished"),
            !.stopSignals = @ + Count(evs, "was_stopped"),
            !.halted    = @ \/ "Stopped" \in Types(evs),
            !.faulted   = @ \/ "fault" \in Types(evs),
            !.aborted   = @ \/ "test_abort" \in Types(evs),
            !.abortedFirst = @ \/ ("test_abort" \in Types(evs) /\ run.announced = 0)]

\* Since the last reset(): the positions in self.plugins of the last result
\* and of the one before it, the pairs that have a result, the lowest order
\* of a result with an error, now and before the last result, and whether
\* the stop predicate has given a reason; errOrders: the orders of the
\* results with an error; steps: the statements the last reset() executed,
\* in order; ann: the pairs announced; again: a pair was announced that
\* had been announced before.
NewHist == [lastPos |-> 0, prevPos |-> 0, done |-> {}, minErr |-> NoOrder,
            minErrPrev |-> NoOrder, aborted |-> FALSE, errOrders |-> {},
            steps |-> <<>>, ann |-> {}, again |-> FALSE]

Min(a, b) == IF a = NoOrder THEN b ELSE IF b = NoOrder \/ a <= b THEN a ELSE b

HistDid(h, evs) ==
    LET res == Of(evs, "was_processed")
        errs == {Catalog[res[k].plugin].order : k \in {j \in 1..Len(res) : res[j].error}}
    IN [h EXCEPT
          !.lastPos = IF res = <<>> THEN @ ELSE res[Len(res)].pos,
          !.prevPos = IF res = <<>> THEN @ ELSE h.lastPos,
          !.minErrPrev = IF res = <<>> THEN @ ELSE h.minErr,
          !.done    = @ \cup PairsOf(res),
          !.errOrders = @ \cup errs,
          !.minErr  = IF errs = {} THEN @
                      ELSE Min(@, CHOOSE o \in errs : \A x \in errs : o <= x),
          !.aborted = @ \/ "test_abort" \in Types(evs),
          !.ann     = @ \cup PairsOf(Of(evs, "about_to_process")),
          !.again   = @ \/ PairsOf(Of(evs, "about_to_process")) \cap h.ann # {}]

\* The history after a callback of run r emitted evs.
Record(r, evs) ==
    /\ signals' = evs
    /\ runs' = [runs EXCEPT ![r] = RunDid(@, evs)]
    /\ hist' = HistDid(hist, evs)

\* No callback of run r is pending.
Terminated(r) == \A k \in 1..Len(pending) : pending[k].run # r

----------------------------------------------------------------------------
(* Initial state: the Controller as __init__ leaves it *)

\* Fault model: next_order is left None.
SecondGroupMissing(gs) == NoOrder

\* `if len(plugin_groups_keys) > 1: next_order = plugin_groups_keys[1]`
SecondGroup(gs) == IF Len(gs) > 1 THEN gs[2] ELSE NoOrder

\* The attributes reset_variables sets, and self.plugins.
ResetVariables(ps, gs) ==
    [ is_running       |-> FALSE,
      stopped          |-> FALSE,
      errored          |-> FALSE,
      pair_generator   |-> FreshGen,
      current_pair     |-> NonePair,
      collectors_order |-> gs[1],
      collected        |-> FALSE,
      validators_order |-> ValidationOrder,
      validated        |-> FALSE,
      processing       |-> [ stop_on_validation |-> FALSE,
                             last_plugin_order  |-> NoOrder,
                             current_order      |-> gs[1],
                             next_order         |-> SecondGroup(gs),
                             nextOrder          |-> NoOrder,
                             ordersWithError    |-> {} ],
      plugins          |-> ps ]

\* reset_context: a new Context with no instance in it.
ResetPublish == [i \in InstanceNames |-> Instances[i].publish]

Init ==
    /\ registry \in Registries
    /\ test \in Tests
    /\ pep479 \in BOOLEAN
    /\ inited = FALSE
    /\ ctl = [ResetVariables(<<>>, <<NoOrder>>) EXCEPT !.pair_generator = DeadGen]
    /\ groups = <<>>
    /\ context = <<>>
    /\ publish = ResetPublish
    /\ pending = <<>>
    /\ signals = <<>>
    /\ runs = <<>>
    /\ hist = NewHist
    /\ cycle = 0
    /\ ncmd = 0

----------------------------------------------------------------------------
(* Commands *)

\* util.defer(d, cb): the timer takes a place among the pending ones.
Defer(q, t) == \E k \in InsertPositions(q, t.d) : pending' = InsertAt(q, k, t)

\* Fault model: every command builds a new generator, as reset() does.
StartRunRebuilds(c) == [c EXCEPT !.is_running = TRUE, !.pair_generator = FreshGen]

\* Fault model: a command withdraws the stop request.
StartRunClearsStop(c) == [c EXCEPT !.is_running = TRUE, !.stopped = FALSE]

\* iterate_and_process up to its deferred on_next.
StartRun(c) == [c EXCEPT !.is_running = TRUE]

\* Fault model: publish() leaves the default on_finished too.
HandsOnFinishedNever(cmd) == FALSE

\* publish() hands self.on_finished to iterate_and_process; collect() and
\* validate() leave the default `lambda: None`.
HandsOnFinished(cmd) == cmd = "publish"

IterateAndProcess(c, cmd) ==
    /\ ctl' = StartRun(c)
    /\ runs' = Append(runs, NewRun(cmd, cycle', hist'.done,
                                   inited /\ Sequencer(ctl') = Sequencer(ctl)))
    /\ Defer(pending, Timer("on_next", Len(runs) + 1, HandsOnFinished(cmd), 10))
    /\ ncmd' = ncmd + 1

\* Fault model: reset() does not load the plug-ins.
PluginsByTargetsNone(reg) == <<>>

\* pyblish.logic.plugins_by_targets: filters, keeps the order.
PluginsByTargets(reg) == reg

\* The statements of reset(), those of reset_variables included, in the
\* order they are executed.
ResetSteps ==
    <<"reset_context", "order_groups.reset", "collectors_order",
      "validators_order", "processing", "load_plugins", "pair_generator",
      "was_reset", "collect">>

Reset ==
    /\ ncmd < MaxCmds
    /\ inited' = TRUE
    /\ cycle' = cycle + 1
    /\ context' = <<>>
    /\ publish' = ResetPublish
    /\ groups' = OrderGroupsReset(registry)
    /\ signals' = <<[Ev("was_reset", 0, NonePair, FALSE) EXCEPT !.cycle = cycle']>>
    /\ hist' = [NewHist EXCEPT !.steps = ResetSteps]
    /\ IterateAndProcess(ResetVariables(PluginsByTargets(registry), groups'), "collect")
    /\ UNCHANGED <<env>>

Validate ==
    /\ inited /\ ncmd < MaxCmds
    /\ signals' = <<>>
    /\ UNCHANGED <<env, inited, groups, context, publish, hist,
                   cycle>>
    /\ IterateAndProcess([ctl EXCEPT !.processing.stop_on_validation = TRUE], "validate")

Publish ==
    /\ inited /\ ncmd < MaxCmds
    /\ signals' = <<>>
    /\ UNCHANGED <<env, inited, groups, context, publish, hist,
                   cycle>>
    /\ IterateAndProcess([ctl EXCEPT !.processing.stop_on_validation = FALSE], "publish")

\* stop() when self.stopped is set already changes nothing.
Stop ==
    /\ inited
    /\ ~ctl.stopped
    /\ ctl' = [ctl EXCEPT !.stopped = TRUE]
    /\ signals' = <<>>
    /\ UNCHANGED <<env, inited, groups, context, publish, pending, runs,
                   hist, cycle, ncmd>>

\* Fault model: the action goes through _process, which notes the order
\* of an error in self.processing.
ActProcessRecords(c, err) ==
    [c EXCEPT !.processing.ordersWithError =
                  IF err THEN @ \cup {c.collectors_order} ELSE @]

\* act's on_next calls pyblish.plugin.process(plugin, self.context, None,
\* action.id) itself, not self._process: no attribute of the Controller
\* is written, whatever the result holds.
ActProcess(c, err) == c

\* act(plugin, action), called when the timer of Window.act fires:
\* `util.defer(100, on_next)`, nothing else.
Act ==
    /\ pending # <<>> /\ pending[1].cb = "controller_act"
    /\ Defer(Tail(pending), Timer("act_on_next", 0, FALSE, 100))
    /\ signals' = <<>>
    /\ UNCHANGED <<env, inited, ctl, groups, context, publish, runs, hist, cycle, ncmd>>

\* Window.act(plugin, action): `self.controller.is_running = True` and
\* `util.defer(100, lambda: self.controller.act(...))`.
WindowAct ==
    /\ inited /\ ncmd < MaxCmds
    /\ ctl' = [ctl EXCEPT !.is_running = TRUE]
    /\ Defer(pending, Timer("controller_act", 0, FALSE, 100))
    /\ ncmd' = ncmd + 1
    /\ signals' = <<>>
    /\ UNCHANGED <<env, inited, groups, context, publish, runs, hist, cycle>>

\* The host toggles an optional item between two runs:
\* instance.data["publish"] is written.
SetPublish ==
    /\ pending = <<>>
    /\ \E i \in Range(context) :
         /\ Instances[i].optional
         /\ publish' = [publish EXCEPT ![i] = ~@]
    /\ signals' = <<>>
    /\ UNCHANGED <<env, inited, ctl, groups, context, pending, runs,
                   hist, cycle, ncmd>>

----------------------------------------------------------------------------
(* Deferred callbacks of iterate_and_process *)

\* What process() may do: return a result, return a result with an error,
\* or raise (the "Unknown error" of _process).
Outcomes == {"ok", "error", "fault"}

\* What process() may do for the pair (p, i).
OutcomesOn(p, i) ==
    IF i # None /\ Instances[i].sound THEN {"ok"}
    ELSE IF Catalog[p].raises THEN Outcomes
    ELSE Outcomes \ {"fault"}

\* The instances of `adds` not yet in the context, appended.
AddInstances(ctx, adds) ==
    ctx \o SelectSeq(adds, LAMBDA i : i \notin Range(ctx))

\* Fault model: _process does not note the order of an error.
ProcessForgets(c, p, err) == [c EXCEPT !.processing.nextOrder = Catalog[p].order]

\* Fault model: _process notes the order of every result.
ProcessNotesAll(c, p, err) ==
    [c EXCEPT !.processing.nextOrder = Catalog[p].order,
              !.processing.ordersWithError = @ \cup {Catalog[p].order}]

\* _process(plugin, instance) returning a result.
Process(c, p, err) ==
    [c EXCEPT !.processing.nextOrder = Catalog[p].order,
              !.processing.ordersWithError =
                  IF err THEN @ \cup {Catalog[p].order} ELSE @]

\* Fault model: after an exception the callback chain goes on with on_next.
FaultTimerRetries(t) == Timer("on_next", t.run, t.fin, 10)

\* `return util.defer(500, lambda: on_unexpected_error(error=exc_msg))`
FaultTimer(t) == Timer("on_unexpected_error", t.run, t.fin, 500)

\* Fault model: at the end of the sequence on_next defers itself again.
StopIterationTimersPolls(c, t) == <<Timer("on_next", t.run, t.fin, 500)>>

\* on_next when the generator is exhausted or raised StopIteration.
StopIterationTimers(c, t) ==
    IF c.stopped THEN <<>> ELSE <<Timer("on_finished", t.run, t.fin, 500)>>

DeferAll(q, ts) == IF ts = <<>> THEN pending' = q ELSE Defer(q, ts[1])

OnNext ==
    /\ pending # <<>> /\ pending[1].cb = "on_next"
    /\ LET t == pending[1]
           q == Tail(pending)
           wasNone == ctl.current_pair.kind = "none"
           r == GenNext(ctl, t.run)
           stopIteration == r.out = "exhausted" \/ (r.out = "raise" /\ ~pep479)
       IN CASE r.out = "yield" ->
                 \* a pair: announce it and defer on_process
                 /\ ctl' = [r.c EXCEPT !.current_pair = r.pair]
                 /\ Record(t.run, r.ev \o <<Ev("about_to_process", t.run, r.pair, FALSE)>>)
                 /\ Defer(q, Timer("on_process", t.run, t.fin, 100))
            [] stopIteration /\ wasNone ->
                 \* next(generator, (None, None)) gives the default
                 /\ ctl' = [r.c EXCEPT !.current_pair = EmptyPair]
                 /\ Record(t.run, r.ev)
                 /\ Defer(q, Timer("on_finished", t.run, t.fin, 100))
            [] stopIteration /\ ~wasNone ->
                 \* except StopIteration
                 /\ ctl' = [r.c EXCEPT !.is_running = FALSE]
                 /\ Record(t.run, r.ev)
                 /\ DeferAll(q, StopIterationTimers(r.c, t))
            [] r.out = "raise" /\ pep479 ->
                 \* except Exception: RuntimeError("generator raised StopIteration")
                 /\ ctl' = [r.c EXCEPT !.is_running = FALSE, !.current_pair = EmptyPair]
                 /\ Record(t.run, r.ev \o <<Ev("fault", t.run, NonePair, FALSE)>>)
                 /\ Defer(q, FaultTimer(t))
    /\ UNCHANGED <<env, inited, groups, context, publish, cycle, ncmd>>

OnProcess ==
    /\ pending # <<>> /\ pending[1].cb = "on_process"
    /\ LET t == pending[1]
           q == Tail(pending)
           cp == ctl.current_pair
       IN \/ \* _process(*self.current_pair) of None or of (None, None) raises
             /\ cp.kind # "pair"
             /\ Record(t.run, <<Ev("fault", t.run, cp, FALSE)>>)
             /\ Defer(q, FaultTimer(t))
             /\ UNCHANGED <<ctl, context>>
          \/ /\ cp.kind = "pair"
             /\ \E o \in OutcomesOn(cp.plugin, cp.instance) :
                  IF o = "fault"
                  THEN /\ ctl' = [ctl EXCEPT !.processing.nextOrder = Catalog[cp.plugin].order]
                       /\ Record(t.run, <<Ev("fault", t.run, cp, FALSE)>>)
                       /\ Defer(q, FaultTimer(t))
                       /\ UNCHANGED context
                  ELSE /\ ctl' = Process(ctl, cp.plugin, o = "error")
                       /\ context' = IF o = "ok"
                                     THEN AddInstances(context, Catalog[cp.plugin].adds)
                                     ELSE context
                       /\ Record(t.run, <<Ev("was_processed", t.run, cp, o = "error")>>)
                       /\ Defer(q, Timer("on_next", t.run, t.fin, 10))
    /\ UNCHANGED <<env, inited, groups, publish, cycle, ncmd>>

OnUnexpectedError ==
    /\ pending # <<>> /\ pending[1].cb = "on_unexpected_error"
    /\ Defer(Tail(pending), Timer("on_finished", pending[1].run, pending[1].fin, 500))
    /\ signals' = <<>>
    /\ UNCHANGED <<env, inited, ctl, groups, context, publish, runs, hist, cycle, ncmd>>

\* What the action's result may hold: no error, or an error.
ActOutcomes == {"ok", "error"}

\* The on_next of act: process the action, emit was_acted(result).
OnAct ==
    /\ pending # <<>> /\ pending[1].cb = "act_on_next"
    /\ pending' = Tail(pending)
    /\ \E o \in ActOutcomes :
         /\ ctl' = ActProcess(ctl, o = "error")
         /\ signals' = <<Ev("was_acted", 0, NonePair, o = "error")>>
    /\ UNCHANGED <<env, inited, groups, context, publish, runs, hist, cycle, ncmd>>

\* self.on_finished emits was_finished; the default on_finished does nothing.
OnFinished ==
    /\ pending # <<>> /\ pending[1].cb = "on_finished"
    /\ pending' = Tail(pending)
    /\ Record(pending[1].run,
              IF pending[1].fin
              THEN <<Ev("was_finished", pending[1].run, NonePair, FALSE)>>
              ELSE <<>>)
    /\ UNCHANGED <<env, inited, ctl, groups, context, publish, cycle, ncmd>>

Next ==
    \/ Reset
    \/ Validate
    \/ Publish
    \/ WindowAct
    \/ Stop
    \/ SetPublish
    \/ OnNext
    \/ OnProcess
    \/ OnUnexpectedError
    \/ OnFinished
    \/ Act
    \/ OnAct

Spec == Init /\ [][Next]_vars

\* The timer at the head of `pending` fires and its callback returns: the
\* timer is gone and the callback has set at most one timer, for the same
\* run.  This is what OnNext, OnProcess, OnUnexpectedError, OnFinished and
\* OnAct do to `pending`, and no command does.
TimerFires ==
    /\ pending # <<>>
    /\ \/ pending' = Tail(pending)
       \/ \E cb \in {"on_next", "on_process", "on_unexpected_error", "on_finished",
                     "act_on_next"} :
          \E d \in {10, 100, 500} :
          \E k \in 1..Len(pending) :
             pending' = InsertAt(Tail(pending), k,
                                 Timer(cb, pending[1].run, pending[1].fin, d))

\* Qt's event loop fires every single-shot timer that is set, and every
\* callback returns; the host is free to issue no further command.
Scheduling == WF_pending(TimerFires)

FairSpec == Init /\ [][Next]_vars /\ Scheduling

----------------------------------------------------------------------------
(* Properties *)

\* The runs started in the reset cycle that is current.
CurrentRuns == {r \in 1..Len(runs) : runs[r].cycle = cycle}

\* The orders of the plug-ins a run has results for.
ResultOrders(r) ==
    {Catalog[runs[r].results[k][1]].order : k \in 1..Len(runs[r].results)}

\* C1: within one reset cycle the results come in the order of
\* self.plugins: the plug-in of every result stands at or after the plug-in
\* of the result before it, and its order is at least as high, so no result
\* of a plug-in of higher order precedes one of a plug-in of lower order.
C1_ProcessingOrder ==
    hist.prevPos > 0 =>
        /\ hist.prevPos <= hist.lastPos
        /\ Catalog[ctl.plugins[hist.prevPos]].order
               <= Catalog[ctl.plugins[hist.lastPos]].order

\* Two plug-ins have produced results one after the other, and self.plugins
\* holds plug-ins of different orders.
C1_Witness ==
    /\ hist.prevPos > 0 /\ hist.prevPos < hist.lastPos
    /\ \E a, b \in Range(ctl.plugins) : Catalog[a].order < Catalog[b].order

\* C2: with CollectA, ValidateA, ExtractA, the predicate that never stops
\* and no result with an error, the collect run of reset() processes exactly
\* (CollectA, None), a validate() after it exactly (ValidateA, X), a
\* publish() after that exactly (ExtractA, X), and ordersWithError stays
\* empty.  (As the specification states it; the code does not do this.)
C2_StagedScenario ==
    LET commands == <<"collect", "validate", "publish">>
        expected == << <<<<"CollectA", None>>>>, <<<<"ValidateA", "X">>>>,
                       <<<<"ExtractA", "X">>>> >>
    IN (/\ registry = ScenarioRegistry /\ test = "never" /\ cycle = 1
        /\ ~ctl.stopped /\ publish = ResetPublish /\ Len(runs) <= 3
        /\ hist.minErr = NoOrder
        /\ \A k \in 1..Len(runs) : runs[k].quiet /\ runs[k].cmd = commands[k])
       => /\ ctl.processing.ordersWithError = {}
          /\ \A r \in 1..Len(runs) :
                Terminated(r) => runs[r].results = expected[r]

\* C3 as the specification states it: a validate() called after the collect
\* run has ended leaves the sequencer as collect left it, and its run
\* processes no plug-in of the collect stage.
C3_ValidateSkipsCollectStage ==
    \A r \in CurrentRuns :
        (runs[r].cmd = "validate" /\ runs[r].quiet) =>
            /\ runs[r].kept
            /\ \A o \in ResultOrders(r) : o # ctl.collectors_order

\* C3, as the code has it: validate() leaves the sequencer (generator,
\* collected/validated flags, stage cursor) as collect left it, and its run
\* processes no pair that had a result when validate() was called; it goes
\* on with the pairs of the collect stage that had none.
C3_ValidateResumes ==
    \A r \in CurrentRuns :
        runs[r].cmd = "validate" =>
            /\ runs[r].kept
            /\ \A k \in 1..Len(runs[r].results) :
                  runs[r].results[k] \notin runs[r].seen

\* A validate() called after the collect run ended (by a fault) has
\* processed a pair of the collect stage that had no result.
C3_Witness ==
    \E r \in CurrentRuns :
        /\ runs[r].cmd = "validate" /\ runs[r].quiet /\ runs[r].kept
        /\ runs[r].seen # {}
        /\ runs[r].results # <<>>
        /\ ctl.collectors_order \in ResultOrders(r)

\* C4: every run, of collect(), validate() or publish(), has emitted
\* exactly one was_finished when it has ended.  (As the specification
\* states it; the code does not do this.)
C4_OneFinishedPerRun ==
    \A r \in CurrentRuns : Terminated(r) => runs[r].finished = 1

\* C5: no pair announced by about_to_process or processed names an instance
\* whose publish flag was false when the generator produced the pair.
C5_PublishFlagExclusion ==
    \A k \in 1..Len(signals) :
        (signals[k].type \in {"about_to_process", "was_processed"}
            /\ signals[k].instance # None) => signals[k].pub

\* A pair of an instance is announced while an instance the same plug-in
\* accepts has its publish flag false.
C5_Witness ==
    \E k \in 1..Len(signals) :
        /\ signals[k].type = "about_to_process" /\ signals[k].instance # None
        /\ \E i \in Range(context) :
              /\ publish[i] = FALSE
              /\ i \in Range(InstancesByPlugin(signals[k].plugin))

\* C6: no pair announced by about_to_process or processed names a plug-in
\* whose active flag is false.
C6_InactiveExclusion ==
    \A k \in 1..Len(signals) :
        signals[k].type \in {"about_to_process", "was_processed"}
            => signals[k].act

\* A pair is announced for a plug-in that stands after an inactive plug-in
\* of the same order in self.plugins.
C6_Witness ==
    \E k \in 1..Len(signals) :
        /\ signals[k].type = "about_to_process"
        /\ \E j \in 1..(signals[k].pos - 1) :
              /\ ~Catalog[ctl.plugins[j]].active
              /\ Catalog[ctl.plugins[j]].order
                     = Catalog[ctl.plugins[signals[k].pos]].order

\* C7: the collect run reset() starts processes no plug-in whose order is
\* beyond validators_order (`plugin.order > self.validators_order`),
\* whatever the registry holds.  (As the specification states it; the code
\* does not do this.)
C7_StageContainment ==
    \A r \in CurrentRuns :
        runs[r].cmd = "collect" =>
            \A o \in ResultOrders(r) : o <= ctl.validators_order

\* C8: a run whose stop predicate gave a reason before the run's first
\* pair has processed no pair and emitted exactly one was_finished when it
\* has ended.  (As the specification states it; the code does not do this.)
C8_PredicateShortCircuit ==
    \A r \in CurrentRuns :
        (runs[r].abortedFirst /\ Terminated(r)) =>
            /\ runs[r].results = <<>>
            /\ runs[r].finished = 1

C10_ErrorHaltsHigherOrders ==
    test = "onError" =>
        /\ (hist.lastPos > 0 /\ hist.minErrPrev # NoOrder) =>
               Catalog[ctl.plugins[hist.lastPos]].order <= hist.minErrPrev
        /\ \A r \in CurrentRuns :
               runs[r].cmd = "publish" =>
                   /\ runs[r].finished <= 1
                   /\ (runs[r].aborted /\ Terminated(r)) => runs[r].finished = 1

\* A publish() run has ended after the predicate halted it on a recorded
\* error, while self.plugins holds a plug-in of higher order than the one
\* that failed.
C10_Witness ==
    /\ test = "onError"
    /\ hist.minErr # NoOrder
    /\ \E p \in Range(ctl.plugins) : Catalog[p].order > hist.minErr
    /\ \E r \in CurrentRuns :
          /\ runs[r].cmd = "publish" /\ runs[r].aborted
          /\ Terminated(r) /\ runs[r].finished = 1

\* The signals of the last step that have the given type.
Emitted(type) == {k \in 1..Len(signals) : signals[k].type = type}

C12_StopBeforeExecution ==
    (ctl.stopped /\ \A r \in CurrentRuns : runs[r].quiet) =>
        \A k \in Emitted("was_processed") : ~signals[k].first

\* C13: a run whose generator ended on self.stopped has emitted
\* was_stopped when it has ended.  (As the specification states it; the
\* code does not do this.)
C13_StoppedIsAnnounced ==
    \A r \in CurrentRuns :
        (runs[r].halted /\ Terminated(r)) => runs[r].stopSignals >= 1

\* C14: after reset() no callback of a run started before it announces or
\* processes a pair.  (As the specification states it; the code does not
\* do this.)
C14_ResetCancelsRuns ==
    \A k \in Emitted("about_to_process") \cup Emitted("was_processed") :
        runs[signals[k].run].cycle = signals[k].cycle

\* The place of a statement among those the last reset() executed.
StepAt(name) == CHOOSE k \in 1..Len(hist.steps) : hist.steps[k] = name

C16_ResetRebuildsProcessing ==
    Emitted("was_reset") # {} =>
        /\ ctl.processing.ordersWithError = {}
        /\ ~ctl.processing.stop_on_validation
        /\ ctl.processing.current_order = groups[1]
        /\ ctl.processing.current_order = ctl.collectors_order
        /\ \A k \in 1..Len(groups) : groups[1] <= groups[k]
        /\ ctl.processing.next_order
               = IF Len(groups) > 1 THEN groups[2] ELSE NoOrder
        /\ ctl.processing.last_plugin_order = NoOrder
        /\ ~ctl.stopped /\ ~ctl.collected /\ ~ctl.validated

\* A reset() follows a reset cycle in which a pair was processed, the
\* collect boundary was passed and a stop request then ended a run.
C16_Witness ==
    /\ Emitted("was_reset") # {}
    /\ cycle = 2
    /\ Len(groups) > 1
    /\ \E r \in 1..Len(runs) : runs[r].cycle = 1 /\ runs[r].results # <<>>
    /\ \E r \in 1..Len(runs) : runs[r].cycle = 1 /\ runs[r].halted

\* The callbacks of the given kind that are pending.
Waiting(cb) == {k \in 1..Len(pending) : pending[k].cb = cb}

\* C17: at most one pair is announced and not yet executed: at most one
\* on_process is pending, also when validate() or publish() is called
\* while the collect run of reset() is running.  (As the specification
\* states it; the code does not do this.)
C17_OnePairInFlight ==
    cycle = 1 => Cardinality(Waiting("on_process")) <= 1

\* C19: a run in which an exception reached on_next's or on_process's
\* except clause has emitted was_stopped and one was_finished when it has
\* ended; stated for the interpreters in which the generator's own raise
\* is no exception, so that the exception is one of _process.  (As the
\* specification states it; the code does not do this.)
C19_FaultIsAnnounced ==
    \A r \in CurrentRuns :
        (~pep479 /\ runs[r].faulted /\ Terminated(r)) =>
            /\ runs[r].stopSignals = 1
            /\ runs[r].finished = 1

\* C18: a step that emits was_processed for a result adds the plug-in's
\* order to ordersWithError if the result carries an error and leaves
\* ordersWithError as it was if not, and the run that executed the pair
\* has its next on_next pending.
C18_ErrorIsRecorded ==
    [][\A k \in 1..Len(signals') :
          signals'[k].type = "was_processed" =>
              /\ ctl'.processing.ordersWithError
                     = ctl.processing.ordersWithError
                         \cup (IF signals'[k].error
                               THEN {Catalog[signals'[k].plugin].order}
                               ELSE {})
              /\ \E j \in 1..Len(pending') :
                    /\ pending'[j].cb = "on_next"
                    /\ pending'[j].run = signals'[k].run]_vars

\* A result with an error has been emitted, its order is noted and the
\* run goes on to fetch the next pair.
C18_Witness ==
    \E k \in Emitted("was_processed") :
        /\ signals[k].error
        /\ Catalog[signals[k].plugin].order \in ctl.processing.ordersWithError
        /\ \E j \in Waiting("on_next") : pending[j].run = signals[k].run

\* C20: a run in which an exception reached on_next's or on_process's
\* except clause fetches, announces and executes no pair any more: all it
\* has pending is on_unexpected_error or on_finished; and ordersWithError
\* holds the orders of the results with an error only, never the order of
\* a pair whose execution raised.
C20_FaultEndsRun ==
    /\ \A r \in CurrentRuns :
          runs[r].faulted =>
              \A k \in 1..Len(pending) :
                  pending[k].run = r =>
                      pending[k].cb \in {"on_unexpected_error", "on_finished"}
    /\ ctl.processing.ordersWithError = hist.errOrders

\* The execution of a pair has raised: the run waits for
\* on_unexpected_error and the order of the pair is not in ordersWithError.
C20_Witness ==
    \E k \in Emitted("fault") :
        /\ signals[k].plugin # None
        /\ runs[signals[k].run].faulted
        /\ Catalog[signals[k].plugin].order \notin ctl.processing.ordersWithError
        /\ \E j \in Waiting("on_unexpected_error") : pending[j].run = signals[k].run


\* What act() must leave alone: self.processing, the generator's position
\* and current_pair, and the stopped, collected and validated flags.
ActFrame(c) ==
    <<c.processing, c.pair_generator, c.current_pair, c.stopped,
      c.collected, c.validated>>

\* The timers of act() that have not fired.
ActsPending(q) == Cardinality({k \in 1..Len(q) : q[k].cb = "act_on_next"})

LoadPluginsCalls ==
    Cardinality({k \in 1..Len(hist.steps) : hist.steps[k] = "load_plugins"})

\* C22: when the collect run of a reset cycle has terminated and the
\* Controller waits for the next command, load_plugins has run again, after
\* the call reset() made before the run.
C22_RegistryRequeried ==
    \A r \in CurrentRuns :
        (runs[r].cmd = "collect" /\ runs[r].results # <<>> /\ pending = <<>>)
            => LoadPluginsCalls >= 2


\* C23: whenever every run has terminated, with no callback of any run
\* pending, is_running is false.
C23_IdleAfterRun ==
    (inited /\ \A r \in 1..Len(runs) : Terminated(r)) => ~ctl.is_running


\* C24: a run started by validate() has no result of a plug-in whose order
\* is above validators_order.
C24_ValidateBoundary ==
    \A r \in CurrentRuns :
        runs[r].cmd = "validate" =>
            \A o \in ResultOrders(r) : o <= ctl.validators_order


\* What _pair_yielder reads of the Controller: self.plugins, the flags,
\* the boundaries, self.processing and the frame of the generator.
SequencerInputs(c) ==
    <<c.plugins, c.stopped, c.collected, c.validated, c.collectors_order,
      c.validators_order, c.processing, c.pair_generator>>

\* A second Controller with the same plug-in list, flags, cursor and
\* generator frame (and the same Context and stop predicate), whose other
\* attributes are as given.
Twin(c, running, pair) == [c EXCEPT !.is_running = running, !.current_pair = pair]

\* What the next fetch gives: how the generator returns, the pair, and
\* what it leaves for the fetches after it.
Fetch(c) ==
    LET r == GenNext(c, 0) IN <<r.out, r.pair, SequencerInputs(r.c)>>

AfterGroupCheck == {"Collected", "Validated", "Stopped", "test_abort", "about_to_process"}

\* C26: a fetch in which the generator reaches a plug-in above the stage
\* cursor moves the cursor to the order group after it and emits
\* passed_group once, ahead of the Collected/Validated/Stopped/predicate
\* reason and of the pair of that fetch; a fetch that ends on the collect
\* boundary has emitted it, a pair is never announced for a plug-in above
\* the cursor, and the cursor moves in no other step of a reset cycle.
C26_PassedGroup ==
    [][ LET before == ctl.processing.current_order
            after  == ctl'.processing.current_order
            passed == {k \in 1..Len(signals') : signals'[k].type = "passed_group"}
        IN /\ passed # {} =>
                /\ Cardinality(passed) = 1
                /\ cycle' = cycle
                /\ before # NoOrder /\ after = FollowingGroup(before)
                /\ \A k \in 1..Len(signals') :
                      signals'[k].type \in AfterGroupCheck =>
                          \A j \in passed : j < k
           /\ (passed = {} /\ cycle' = cycle) => after = before
           /\ "Collected" \in Types(signals') => passed # {}
           /\ \A k \in 1..Len(signals') :
                 signals'[k].type = "about_to_process" =>
                     Catalog[signals'[k].plugin].order <= after ]_vars

\* passed_group has been emitted in a fetch that ended on the collect
\* boundary, and the cursor is at the second order group.
C26_Witness ==
    /\ Len(signals) >= 2
    /\ signals[1].type = "passed_group" /\ signals[2].type = "Collected"
    /\ Len(groups) >= 2 /\ ctl.processing.current_order = groups[2]
    /\ ctl.processing.next_order = NoOrder


\* The pairs (plugin, None) the last step announced.
ContextPairs ==
    {k \in 1..Len(signals) :
        signals[k].type = "about_to_process" /\ signals[k].instance = None}

\* An instance of the Context whose publish flag is not false has a family
\* among fams.
ActiveFamilyIn(fams) ==
    \E k \in 1..Len(context) :
        publish[context[k]] # FALSE /\ Instances[context[k]].family \in fams

\* C27 as the specification states it: a pair (plugin, None) is announced
\* at most once in a reset cycle, and only when an instance of the Context
\* that is not switched off has a family of the plug-in.
C27_NoneWithoutFamily ==
    /\ \A p \in Range(ctl.plugins) : <<p, None>> \in hist.ann => ~hist.again
    /\ \A k \in ContextPairs : ActiveFamilyIn(Catalog[signals[k].plugin].families)

\* C27: a pair (plugin, None) is announced at most once in a reset cycle,
\* and only for a plug-in that has the wildcard family or a family of an
\* instance of the Context that is not switched off.
C27_ContextLevelPairs ==
    /\ \A p \in Range(ctl.plugins) : <<p, None>> \in hist.ann => ~hist.again
    /\ \A k \in ContextPairs :
          \/ "*" \in Catalog[signals[k].plugin].families
          \/ ActiveFamilyIn(Catalog[signals[k].plugin].families)

\* The generator has gone past an active context-level plug-in with no
\* family of the Context's instances without a pair for it, after the pair
\* of a context-level plug-in before it, and has announced a pair of a
\* plug-in after it.
C27_Witness ==
    \E a, b, d \in 1..Len(ctl.plugins) :
        /\ a < b /\ b < d
        /\ <<ctl.plugins[a], None>> \in hist.ann
        /\ Catalog[ctl.plugins[b]].active /\ ~Catalog[ctl.plugins[b]].instanceEnabled
        /\ "*" \notin Catalog[ctl.plugins[b]].families
        /\ <<ctl.plugins[b], None>> \notin hist.ann
        /\ \E k \in 1..Len(signals) :
              signals[k].type = "about_to_process" /\ signals[k].pos = d


\* The instances of the Context with a family of the plug-in p (or any, for
\* the wildcard), in insertion order.
Matching(p) ==
    SelectSeq(context, LAMBDA i : "*" \in Catalog[p].families
                                  \/ Instances[i].family \in Catalog[p].families)

\* C28: the pairs of an instance-enabled plug-in.  The pair a fetch
\* announces is the next instance, in insertion order, that matches the
\* plug-in's families and whose publish flag is not false: every instance
\* between it and the pair before it (or the head of the list, when the
\* plug-in has just been reached) is switched off; when the generator leaves
\* the plug-in every instance after the last pair is switched off; and no
\* pair is announced twice.
C28_InstancePairs ==
    [][ LET g  == ctl.pair_generator
            g2 == ctl'.pair_generator
            resumed == g.status = "suspended" /\ g2.status = "suspended"
                       /\ g2.pi = g.pi /\ cycle' = cycle
            held == g.status = "suspended" /\ cycle' = cycle
                    /\ Catalog[ctl.plugins[g.pi]].instanceEnabled
        IN /\ \A k \in 1..Len(signals') :
                 (signals'[k].type = "about_to_process" /\ signals'[k].instance # None) =>
                     LET p == signals'[k].plugin
                         i == signals'[k].instance
                         from == IF resumed THEN g.ii ELSE 0
                     IN /\ Catalog[p].instanceEnabled /\ Catalog[p].active
                        /\ publish'[i] # FALSE
                        /\ context' = context
                        /\ g2.insts = IF resumed THEN g.insts ELSE Matching(p)
                        /\ g2.ii > from /\ g2.insts[g2.ii] = i
                        /\ \A j \in (from + 1)..(g2.ii - 1) : publish'[g2.insts[j]] = FALSE
           /\ (held /\ g2 # g /\ ~resumed) =>
                 \A j \in (g.ii + 1)..Len(g.insts) : publish[g.insts[j]] = FALSE
           /\ ~hist'.again ]_vars

\* The generator has left an instance-enabled plug-in after two pairs of
\* it, with an instance of another family and an instance that is switched
\* off in the Context, neither of which got a pair.
C28_Witness ==
    \E p \in Range(ctl.plugins) :
        /\ Catalog[p].instanceEnabled
        /\ ctl.pair_generator.status = "dead"
        /\ \E i, j \in Range(context) : i # j /\ {<<p, i>>, <<p, j>>} \subseteq hist.ann
        /\ \E i \in Range(context) :
              Instances[i].family \notin Catalog[p].families /\ <<p, i>> \notin hist.ann
        /\ \E i \in Range(context) : publish[i] = FALSE /\ <<p, i>> \notin hist.ann


\* C29: with every timer fired in the end and every callback returning,
\* each run reaches a state where no callback of it is pending: at every
\* moment a state lies ahead in which no run started so far has a callback
\* pending.
C29_RunsTerminate == []<>(\A r \in 1..Len(runs) : Terminated(r))

\* A run that announced and processed pairs has no callback pending any more.
C29_Witness ==
    \E r \in 1..Len(runs) :
        /\ Terminated(r)
        /\ runs[r].announced >= 2 /\ Len(runs[r].results) >= 2


\* The reasons the generator ends the sequence for in the regular way.
RegularEnds == {"Collected", "Validated", "Stopped", "test_abort"}

\* C30: a fetch in which the generator ends the sequence on a stage
\* boundary, on self.stopped or on the stop predicate's reason does not reach
\* the `except Exception` clause of on_next and does not defer
\* on_unexpected_error.
C30_RegularEndIsNoFault ==
    \A k \in 1..Len(signals) :
        signals[k].type \in RegularEnds =>
            /\ "fault" \notin Types(signals)
            /\ \A j \in 1..Len(pending) :
                  pending[j].cb = "on_unexpected_error" => pending[j].run # signals[k].run


\* Window.on_was_finished: `success_val = 0; if self.controller.errored:
\* ... else: success_val = 1`.
SuccessVal(c) == IF c.errored THEN 0 ELSE 1

\* C31: when was_finished is emitted and the error-order set is not empty,
\* self.errored is true and on_was_finished sets the success value 0: the
\* success value 1 is reported only when no result held an error.
C31_ErroredTellsFailure ==
    (Emitted("was_finished") # {} /\ ctl.processing.ordersWithError # {}) =>
        (ctl.errored /\ SuccessVal(ctl) = 0)


\* The results of the runs of the reset cycle that is current, as pairs.
ResultsInCycle(r) == {runs[r].results[k] : k \in 1..Len(runs[r].results)}

\* C32: when no callback is pending any more and no exception occurred in
\* the reset cycle, every pair that was announced has been executed, and
\* executed once: it is in the results of one run, one time; also when
\* validate() or publish() was called while an earlier run was running.
C32_ExecutedExactlyOnce ==
    (cycle = 1 /\ pending = <<>> /\ \A r \in CurrentRuns : ~runs[r].faulted) =>
        /\ hist.ann \subseteq hist.done
        /\ \A r \in CurrentRuns :
              /\ \A j, k \in 1..Len(runs[r].results) :
                    runs[r].results[j] = runs[r].results[k] => j = k
              /\ \A q \in CurrentRuns :
                    q # r => ResultsInCycle(q) \cap ResultsInCycle(r) = {}


\* What the Window's handlers of the signals evs, called in order, leave
\* of the enabled state of a footer button: on_was_reset enables Play and
\* Validate; on_passed_group enables Play unless a plug-in item has an
\* error, and Validate unless so or self.controller.validated;
\* on_was_finished disables both.  "untouched" when no handler wrote it.
RECURSIVE ButtonAfter(_, _, _)
ButtonAfter(evs, button, state) ==
    IF evs = <<>> THEN state
    ELSE LET failed == hist.errOrders # {}
             e == Head(evs).type
             next == CASE e = "was_reset" -> "enabled"
                       [] e = "passed_group" ->
                            IF failed \/ (button = "validate" /\ ctl.validated)
                            THEN "disabled" ELSE "enabled"
                       [] e = "was_finished" -> "disabled"
                       [] OTHER -> state
         IN ButtonAfter(Tail(evs), button, next)

\* A run has a callback pending.
RunInProgress == \E k \in 1..Len(pending) : pending[k].run > 0

\* C33: while a run has a callback pending, no handler of the Window has
\* just enabled the Play or the Validate button: neither on_was_reset
\* before the collect run ends nor on_passed_group in the middle of a run.
C33_ButtonsOffDuringRun ==
    RunInProgress =>
        /\ ButtonAfter(signals, "play", "untouched") # "enabled"
        /\ ButtonAfter(signals, "validate", "untouched") # "enabled"


\* C34: when was_acted is emitted for an action started through Window.act
\* and no run has a callback pending, is_running is false.  Stated for
\* reset cycles whose runs announced a pair and met no exception, which end
\* in the `except StopIteration` clause of on_next.
C34_IdleAfterAct ==
    ( /\ Emitted("was_acted") # {}
      /\ ~RunInProgress
      /\ \A r \in CurrentRuns : runs[r].announced > 0 /\ ~runs[r].faulted )
        => ~ctl.is_running


NonDecreasing(ps) ==
    \A j, k \in 1..Len(ps) : j < k => Catalog[ps[j]].order <= Catalog[ps[k]].order

\* C36: with the order groups the distinct orders of the active plug-ins
\* and the plug-ins iterated in non-decreasing order, a pair of plug-in p is
\* only yielded while processing.current_order equals p.order, and
\* current_order only becomes undefined from the last order group, when a
\* plug-in ordered after that group is reached.
C36_CursorNeverLags ==
    [][ (cycle' = cycle /\ groups = OrderGroupsReset(ctl.plugins) /\ NonDecreasing(ctl.plugins)) =>
            /\ \A k \in 1..Len(signals') :
                  signals'[k].type = "about_to_process" =>
                      ctl'.processing.current_order = Catalog[signals'[k].plugin].order
            /\ (ctl.processing.current_order # NoOrder /\ ctl'.processing.current_order = NoOrder) =>
                  /\ ctl.processing.current_order = groups[Len(groups)]
                  /\ "passed_group" \in Types(signals')
                  /\ \E k \in 1..Len(ctl.plugins) :
                        Catalog[ctl.plugins[k]].order > groups[Len(groups)] ]_vars

\* A pair has been yielded in the cycle, and the cursor has since left the
\* last order group and is undefined.
C36_Witness ==
    /\ cycle > 0 /\ ctl.processing.current_order = NoOrder
    /\ "passed_group" \in Types(signals)
    /\ \E r \in CurrentRuns : runs[r].announced > 0


\* C37: within a reset cycle ordersWithError only grows; every order in it
\* is the order of a plug-in a result with an error has been emitted for in
\* the cycle, and none is greater than processing.nextOrder.
C37_ErrorOrdersGrow ==
    [][ /\ cycle' = cycle =>
              ctl.processing.ordersWithError \subseteq ctl'.processing.ordersWithError
        /\ ctl'.processing.ordersWithError \subseteq hist'.errOrders
        /\ \A o \in ctl'.processing.ordersWithError :
              o <= ctl'.processing.nextOrder ]_vars

\* An order is in the set and a later pair of the cycle has been executed
\* without an error.
C37_Witness ==
    /\ ctl.processing.ordersWithError # {}
    /\ \E k \in Emitted("was_processed") : ~signals[k].error


\* The generator has run through self.plugins to the end: it is finished,
\* and not by a stage boundary, self.stopped or the stop predicate.
SequencerExhausted ==
    /\ ctl.pair_generator.status = "dead"
    /\ ~ctl.collected
    /\ \A r \in CurrentRuns : ~runs[r].halted /\ ~runs[r].aborted

\* C38: the on_next of a publish() that was given with no callback pending
\* when the generator is exhausted announces no pair, leaves
\* self.processing and the context as they are and defers self.on_finished,
\* the one callback then pending, which emits was_finished once.
C38_ExhaustedPublish ==
    [][ ( /\ Len(pending) = 1 /\ pending[1].cb = "on_next"
          /\ runs[pending[1].run].cmd = "publish"
          /\ runs[pending[1].run].cycle = cycle
          /\ runs[pending[1].run].quiet
          /\ runs[pending[1].run].announced = 0
          /\ SequencerExhausted
          /\ ncmd' = ncmd /\ pending' # pending ) =>
            /\ "about_to_process" \notin Types(signals')
            /\ ctl'.processing = ctl.processing
            /\ context' = context
            /\ pending' = <<Timer("on_finished", pending[1].run, TRUE, 500)>> ]_vars

====
